---- MODULE Spec2Model ----
(***************************************************************************)
(* Model of src/web_crawler/web_crawler.py (class WebCrawler).             *)
(*                                                                         *)
(* A text is a sequence of one-character strings.  A parsed document       *)
(* (the BeautifulSoup object) is the sequence, in document order, of its   *)
(* elements; a table element carries its rows and each row its cells.      *)
(* With html.parser the content of script and style elements is raw text,  *)
(* so these elements never contain other elements.                         *)
(*                                                                         *)
(* Spec     : one call of crawl_page / get_page_summary, statement by      *)
(*            statement.                                                   *)
(* SpecPure : the extraction functions applied to bounded inputs.          *)
(***************************************************************************)
EXTENDS Integers, Sequences, FiniteSets, TLC

\* ---------------------------------------------------------------- bounds
MaxNodes == 2
MaxPureNodes == 3
MaxRows == 2
MaxCells == 2
MaxTextLen == 5
MaxApply == 2

\* ------------------------------------------------------- program constants
PreviewLen == 500
HttpErrorFrom == 400

\* ------------------------------------------------------------------ texts
Whitespace == {" ", "\n", "\t"}

RECURSIVE lstrip(_)
lstrip(s) ==
    IF s = <<>> THEN <<>>
    ELSE IF Head(s) \in Whitespace THEN lstrip(Tail(s)) ELSE s

RECURSIVE rstrip(_)
rstrip(s) ==
    IF s = <<>> THEN <<>>
    ELSE IF s[Len(s)] \in Whitespace THEN rstrip(SubSeq(s, 1, Len(s) - 1)) ELSE s

\* str.strip(): the text without leading and trailing whitespace
strip(s) == rstrip(lstrip(s))

\* str.splitlines(): split at line boundaries, no empty last line
RECURSIVE splitlines(_)
splitlines(s) ==
    IF s = <<>> THEN <<>>
    ELSE LET brk == {i \in 1..Len(s) : s[i] = "\n"}
         IN IF brk = {} THEN <<s>>
            ELSE LET i == CHOOSE j \in brk : \A k \in brk : j <= k
                 IN <<SubSeq(s, 1, i - 1)>> \o splitlines(SubSeq(s, i + 1, Len(s)))

\* str.split("  "): split at every (non-overlapping, leftmost) pair of spaces
RECURSIVE split_two_spaces(_)
split_two_spaces(s) ==
    LET at == {i \in 1..(Len(s) - 1) : s[i] = " " /\ s[i + 1] = " "}
    IN IF at = {} THEN <<s>>
       ELSE LET i == CHOOSE j \in at : \A k \in at : j <= k
            IN <<SubSeq(s, 1, i - 1)>> \o split_two_spaces(SubSeq(s, i + 2, Len(s)))

\* ' '.join(chunks)
RECURSIVE join_space(_)
join_space(chunks) ==
    IF chunks = <<>> THEN <<>>
    ELSE IF Len(chunks) = 1 THEN chunks[1]
    ELSE chunks[1] \o <<" ">> \o join_space(Tail(chunks))

RECURSIVE flatten(_)
flatten(seqs) == IF seqs = <<>> THEN <<>> ELSE Head(seqs) \o flatten(Tail(seqs))

RECURSIVE map_strip(_)
map_strip(ts) == IF ts = <<>> THEN <<>> ELSE <<strip(Head(ts))>> \o map_strip(Tail(ts))

RECURSIVE map_split(_)
map_split(ls) ==
    IF ls = <<>> THEN <<>> ELSE <<split_two_spaces(Head(ls))>> \o map_split(Tail(ls))

NonEmpty(t) == t # <<>>

\* variant: the phrases of a line are not stripped again
normalize_unstripped_chunks(text) ==
    LET lines == map_strip(splitlines(text))
        chunks == flatten(map_split(lines))
    IN join_space(SelectSeq(chunks, NonEmpty))

\* lines 141-144 of _extract_clean_text: the whitespace normalization
normalize(text) ==
    LET lines == map_strip(splitlines(text))
        chunks == map_strip(flatten(map_split(lines)))
    IN join_space(SelectSeq(chunks, NonEmpty))

\* --------------------------------------------------------------- documents
HeadingTags == {"h1", "h2", "h3", "h4", "h5", "h6"}
LdJson == "application/ld+json"

\* an element of the parsed tree: tag name, type attribute, own text, rows
Element(tag, type, text, rows) ==
    [tag |-> tag, type |-> type, text |-> text, rows |-> rows]
Cell(tag, text) == [tag |-> tag, text |-> text]

\* Tag.get_text(): the concatenation of the element's strings
row_text(row) == flatten([i \in 1..Len(row) |-> row[i].text])
get_text(el) ==
    IF el.tag = "table"
    THEN flatten([i \in 1..Len(el.rows) |-> row_text(el.rows[i])])
    ELSE el.text

\* soup.get_text()
soup_get_text(soup) == flatten([i \in 1..Len(soup) |-> get_text(soup[i])])

\* soup.find_all(tag): the elements of that tag, in document order
find_all(soup, tag) == SelectSeq(soup, LAMBDA el : el.tag = tag)

\* ------------------------------------------------------------ json.loads
\* json.loads on texts over the characters { } 1 and whitespace: the JSON
\* documents over that alphabet are the empty object and the integers 1, 11, ...
JsonDigits(s) == s # <<>> /\ \A i \in 1..Len(s) : s[i] = "1"
JsonEmptyObject(s) ==
    /\ Len(s) >= 2
    /\ s[1] = "{"
    /\ s[Len(s)] = "}"
    /\ \A i \in 2..(Len(s) - 1) : s[i] \in Whitespace
json_decodes(text) == JsonDigits(strip(text)) \/ JsonEmptyObject(strip(text))

RECURSIVE DigitsValue(_)
DigitsValue(s) == IF s = <<>> THEN 0 ELSE 10 * DigitsValue(SubSeq(s, 1, Len(s) - 1)) + 1

json_loads(text) ==
    IF JsonDigits(strip(text))
    THEN [json |-> "number", value |-> DigitsValue(strip(text))]
    ELSE [json |-> "object", value |-> 0]

\* ------------------------------------------------------ extraction passes
\* _extract_title: the trimmed text of the first title element, or ""
_extract_title(soup) ==
    LET found == find_all(soup, "title")
    IN IF found = <<>> THEN <<>> ELSE strip(get_text(found[1]))

texts_of(els) == [i \in 1..Len(els) |-> strip(get_text(els[i]))]

\* variant: every key gets the headings of all levels
_extract_headings_merged(soup) ==
    [tag \in HeadingTags |->
        texts_of(SelectSeq(soup, LAMBDA el : el.tag \in HeadingTags))]

\* _extract_headings: for h1..h6 the trimmed texts of the elements of that tag
_extract_headings(soup) ==
    [tag \in HeadingTags |-> texts_of(find_all(soup, tag))]

\* variant: without the "if p.get_text().strip()" filter
_extract_paragraphs_unfiltered(soup) == texts_of(find_all(soup, "p"))

\* _extract_paragraphs: the trimmed texts of the p elements, empty ones left out
_extract_paragraphs(soup) ==
    texts_of(SelectSeq(find_all(soup, "p"), LAMBDA p : strip(get_text(p)) # <<>>))

\* lines 136-137 of _extract_clean_text: decompose() every script and style
\* element of the soup it was handed
decompose_scripts(soup) == SelectSeq(soup, LAMBDA el : el.tag \notin {"script", "style"})

\* _extract_clean_text: the value it returns
_extract_clean_text(soup) == normalize(soup_get_text(decompose_scripts(soup)))

\* _extract_structured_data: the parsed ld+json scripts of the soup it is handed
ld_scripts(soup) == SelectSeq(soup, LAMBDA el : el.tag = "script" /\ el.type = LdJson)

_extract_structured_data(soup) ==
    LET ok == SelectSeq(ld_scripts(soup),
                        LAMBDA sc : get_text(sc) # <<>> /\ json_decodes(get_text(sc)))
    IN [i \in 1..Len(ok) |-> json_loads(get_text(ok[i]))]

\* _extract_tables
row_cells(row) == [i \in 1..Len(row) |-> strip(row[i].text)]

table_rows(table) ==
    LET withCells == SelectSeq(table.rows, LAMBDA row : row # <<>>)
    IN [i \in 1..Len(withCells) |-> row_cells(withCells[i])]

\* variant: rows is not cut after the header row
table_record_headers_in_rows(rows) ==
    [headers |-> rows[1], rows |-> rows, raw_rows |-> rows]

\* lines 178-182: the dictionary of one table
table_record(rows) ==
    [headers |-> IF rows # <<>> THEN rows[1] ELSE <<>>,
     rows |-> IF Len(rows) > 1 THEN Tail(rows) ELSE <<>>,
     raw_rows |-> rows]

\* variant: without the "if rows" guard of line 177
_extract_tables_keep_empty(soup) ==
    LET tabs == find_all(soup, "table")
    IN [i \in 1..Len(tabs) |->
          [headers |-> IF table_rows(tabs[i]) # <<>> THEN table_rows(tabs[i])[1] ELSE <<>>,
           rows |-> IF Len(table_rows(tabs[i])) > 1 THEN Tail(table_rows(tabs[i])) ELSE <<>>,
           raw_rows |-> table_rows(tabs[i])]]

\* lines 162-184
_extract_tables(soup) ==
    LET tabs == SelectSeq(find_all(soup, "table"), LAMBDA t : table_rows(t) # <<>>)
    IN [i \in 1..Len(tabs) |-> table_record(table_rows(tabs[i]))]

\* ------------------------------------------------------------------ state
VARIABLES
    pc,         \* the statement the call is at
    entry,      \* the method the caller invoked
    url,        \* the argument of the call
    response,   \* status code of the response of session.get (0: none yet)
    e,          \* the requests.RequestException caught ("none": none)
    soup,       \* the BeautifulSoup object of the call
    parsed,     \* history: soup as BeautifulSoup(...) returned it
    page_data,  \* the dictionary crawl_page builds
    ret,        \* the value crawl_page returned
    summary,    \* the value get_page_summary returned
    raised,     \* the exception that left the call ("none": none)
    delays,     \* history: time.sleep calls of this call
    fetches,    \* history: session.get calls of this call
    pkind,      \* SpecPure: kind of the input
    pdoc,       \* SpecPure: the document handed to an extraction function
    ptext,      \* SpecPure: the text handed to the normalization
    pfun,       \* SpecPure: the function applied ("none": none yet)
    pout,       \* SpecPure: its result
    pprev,      \* SpecPure: the argument of the last normalization
    papplied    \* SpecPure: number of normalizations applied

crawl_vars == <<pc, entry, url, response, e, soup, parsed, page_data, ret,
                summary, raised, delays, fetches>>
pure_vars == <<pkind, pdoc, ptext, pfun, pout, pprev, papplied>>
vars == <<pc, entry, url, response, e, soup, parsed, page_data, ret,
          summary, raised, delays, fetches,
          pkind, pdoc, ptext, pfun, pout, pprev, papplied>>

SeqsUpTo(S, n) == UNION {[1..k -> S] : k \in 0..n}

\* ----------------------------------------------------------------- inputs
URLs == {"https://docs.oppwa.com/integrations/widget",
         "https://docs.oppwa.com/integrations/widget/api"}
StatusCodes == {200, 203, 404, 500}
TransportErrors == {"ConnectionError", "Timeout"}
Timestamps == {1, 2}

NoRows == <<>>
CrawlElements ==
    { Element("title", "", <<" ", "H", "i", " ">>, NoRows),
      Element("h1", "", <<"A">>, NoRows),
      Element("h1", "", <<" ", "B">>, NoRows),
      Element("h2", "", <<"C">>, NoRows),
      Element("p", "", <<"t", " ", " ", "x", "\n">>, NoRows),
      Element("p", "", <<" ">>, NoRows),
      Element("script", LdJson, <<"{", "}">>, NoRows),
      Element("script", LdJson, <<"1", "1">>, NoRows),
      Element("script", LdJson, <<"{">>, NoRows),
      Element("script", LdJson, <<>>, NoRows),
      Element("script", "text/javascript", <<"1">>, NoRows),
      Element("style", "", <<"p", "{", "}">>, NoRows),
      Element("table", "", <<>>,
              << <<Cell("th", <<"X">>)>>, <<Cell("td", <<" ", "Y">>)>> >>),
      Element("table", "", <<>>, << <<>> >>) }
Documents == SeqsUpTo(CrawlElements, MaxNodes)

EmptyDict == [k \in {} |-> 0]

\* ------------------------------------------------------- crawl_page, steps
Call(method, u) ==
    /\ pc \in {"idle", "done"}
    /\ entry' = method
    /\ url' = u
    /\ pc' = "sleep"
    /\ response' = 0
    /\ e' = "none"
    /\ soup' = <<>>
    /\ parsed' = <<>>
    /\ page_data' = EmptyDict
    /\ ret' = EmptyDict
    /\ summary' = EmptyDict
    /\ raised' = "none"
    /\ delays' = 0
    /\ fetches' = 0
    /\ UNCHANGED pure_vars

CallCrawlPage == \E u \in URLs : Call("crawl_page", u)

CallGetPageSummary == \E u \in URLs : Call("get_page_summary", u)

\* line 40: time.sleep(self.delay)
Sleep ==
    /\ pc = "sleep"
    /\ delays' = delays + 1
    /\ pc' = "get"
    /\ UNCHANGED <<entry, url, response, e, soup, parsed, page_data, ret,
                   summary, raised, fetches>>
    /\ UNCHANGED pure_vars

\* line 42: session.get returns a response
SessionGetResponse ==
    /\ pc = "get"
    /\ \E code \in StatusCodes : response' = code
    /\ fetches' = fetches + 1
    /\ pc' = "raise_for_status"
    /\ UNCHANGED <<entry, url, e, soup, parsed, page_data, ret, summary,
                   raised, delays>>
    /\ UNCHANGED pure_vars

\* line 42: session.get raises a requests.RequestException
SessionGetRaises ==
    /\ pc = "get"
    /\ \E err \in TransportErrors : e' = err
    /\ fetches' = fetches + 1
    /\ pc' = "except"
    /\ UNCHANGED <<entry, url, response, soup, parsed, page_data, ret,
                   summary, raised, delays>>
    /\ UNCHANGED pure_vars

\* line 43: response.raise_for_status()
RaiseForStatus ==
    /\ pc = "raise_for_status"
    /\ IF response >= HttpErrorFrom
       THEN e' = "HTTPError" /\ pc' = "except"
       ELSE e' = e /\ pc' = "parse"
    /\ UNCHANGED <<entry, url, response, soup, parsed, page_data, ret,
                   summary, raised, delays, fetches>>
    /\ UNCHANGED pure_vars

\* line 45: soup = BeautifulSoup(response.content, 'html.parser')
Parse ==
    /\ pc = "parse"
    /\ \E d \in Documents : soup' = d /\ parsed' = d
    /\ page_data' = ("url" :> url) @@ ("status_code" :> response)
    /\ pc' = "title"
    /\ UNCHANGED <<entry, url, response, e, ret, summary, raised, delays, fetches>>
    /\ UNCHANGED pure_vars

\* one entry of the dictionary of lines 48-62, evaluated in the order written
Pass(at, key, value, soupAfter, next) ==
    /\ pc = at
    /\ page_data' = page_data @@ (key :> value)
    /\ soup' = soupAfter
    /\ pc' = next
    /\ UNCHANGED <<entry, url, response, e, parsed, ret, summary, raised,
                   delays, fetches>>
    /\ UNCHANGED pure_vars

ExtractTitle == Pass("title", "title", _extract_title(soup), soup, "headings")

ExtractHeadings ==
    Pass("headings", "headings", _extract_headings(soup), soup, "paragraphs")

ExtractParagraphs ==
    Pass("paragraphs", "paragraphs", _extract_paragraphs(soup), soup, "text_content")

\* line 57: the pass decomposes the script and style elements of self's soup
ExtractCleanText ==
    Pass("text_content", "text_content", _extract_clean_text(soup),
         decompose_scripts(soup), "structured_data")

ExtractStructuredData ==
    Pass("structured_data", "structured_data", _extract_structured_data(soup),
         soup, "tables")

ExtractTables == Pass("tables", "tables", _extract_tables(soup), soup, "return")

AfterCrawlPage == IF entry = "crawl_page" THEN "done" ELSE "summary"

\* line 64: return page_data
ReturnPageData ==
    /\ pc = "return"
    /\ ret' = page_data
    /\ pc' = AfterCrawlPage
    /\ UNCHANGED <<entry, url, response, e, soup, parsed, page_data, summary,
                   raised, delays, fetches>>
    /\ UNCHANGED pure_vars

\* variant: the failure record also carries a status_code
failure_record_with_status_code(u, err, now) ==
    ("url" :> u) @@ ("error" :> err) @@ ("status" :> "failed")
        @@ ("crawl_timestamp" :> now) @@ ("status_code" :> 0)

\* lines 68-73: the record returned on a RequestException
failure_record(u, err, now) ==
    ("url" :> u) @@ ("error" :> err) @@ ("status" :> "failed")
        @@ ("crawl_timestamp" :> now)

\* variant: the first failure sleeps and fetches once more
ExceptRetry ==
    /\ pc = "except"
    /\ IF fetches < 2
       THEN /\ pc' = "sleep"
            /\ ret' = ret
       ELSE /\ \E now \in Timestamps : ret' = failure_record(url, e, now)
            /\ pc' = AfterCrawlPage
    /\ UNCHANGED <<entry, url, response, e, soup, parsed, page_data, summary,
                   raised, delays, fetches>>
    /\ UNCHANGED pure_vars

\* lines 66-73: except requests.RequestException
Except ==
    /\ pc = "except"
    /\ \E now \in Timestamps : ret' = failure_record(url, e, now)
    /\ pc' = AfterCrawlPage
    /\ UNCHANGED <<entry, url, response, e, soup, parsed, page_data, summary,
                   raised, delays, fetches>>
    /\ UNCHANGED pure_vars

\* ------------------------------------------------------- get_page_summary
\* the keys of page_data that lines 227-236 read
SummaryReads ==
    {"url", "title", "meta_description", "headings", "paragraphs", "links",
     "images", "structured_data", "text_content", "crawl_timestamp"}

RECURSIVE SumLen(_, _)
SumLen(f, keys) ==
    IF keys = {} THEN 0
    ELSE LET k == CHOOSE x \in keys : TRUE
         IN Len(f[k]) + SumLen(f, keys \ {k})

text_preview(text) ==
    IF Len(text) > PreviewLen
    THEN SubSeq(text, 1, PreviewLen) \o <<".", ".", ".">>
    ELSE text

summary_record(d) ==
    [url |-> d["url"],
     title |-> d["title"],
     meta_description |-> d["meta_description"],
     headings_count |-> SumLen(d["headings"], DOMAIN d["headings"]),
     paragraphs_count |-> Len(d["paragraphs"]),
     links_count |-> Len(d["links"]),
     images_count |-> Len(d["images"]),
     has_structured_data |-> Len(d["structured_data"]) > 0,
     text_preview |-> text_preview(d["text_content"]),
     crawl_timestamp |-> d["crawl_timestamp"]]

\* lines 222-237, after page_data = self.crawl_page(url)
GetPageSummaryReturn ==
    /\ pc = "summary"
    /\ IF "error" \in DOMAIN ret
       THEN summary' = ret /\ raised' = raised
       ELSE IF SummaryReads \subseteq DOMAIN ret
            THEN summary' = summary_record(ret) /\ raised' = raised
            ELSE summary' = summary /\ raised' = "KeyError"
    /\ pc' = "done"
    /\ UNCHANGED <<entry, url, response, e, soup, parsed, page_data, ret,
                   delays, fetches>>
    /\ UNCHANGED pure_vars

PureIdle ==
    /\ pkind = "none"
    /\ pdoc = <<>>
    /\ ptext = <<>>
    /\ pfun = "none"
    /\ pout = <<>>
    /\ pprev = <<>>
    /\ papplied = 0

CrawlIdle ==
    /\ pc = "idle"
    /\ entry = "none"
    /\ url = ""
    /\ response = 0
    /\ e = "none"
    /\ soup = <<>>
    /\ parsed = <<>>
    /\ page_data = EmptyDict
    /\ ret = EmptyDict
    /\ summary = EmptyDict
    /\ raised = "none"
    /\ delays = 0
    /\ fetches = 0

Init == CrawlIdle /\ PureIdle

Next ==
    \/ CallCrawlPage
    \/ CallGetPageSummary
    \/ Sleep
    \/ SessionGetResponse
    \/ SessionGetRaises
    \/ RaiseForStatus
    \/ Parse
    \/ ExtractTitle
    \/ ExtractHeadings
    \/ ExtractParagraphs
    \/ ExtractCleanText
    \/ ExtractStructuredData
    \/ ExtractTables
    \/ ReturnPageData
    \/ Except
    \/ GetPageSummaryReturn

Spec == Init /\ [][Next]_vars

\* ------------------------------------------- the extraction functions alone
PureTexts == {<<"a">>, <<" ", "b", "\n">>}
PureElements ==
    {Element(tag, "", t, NoRows) : tag \in HeadingTags, t \in PureTexts}
        \cup {Element("p", "", t, NoRows) : t \in PureTexts \cup {<<" ", "\t">>, <<>>}}
PureDocuments == SeqsUpTo(PureElements, MaxPureNodes)

Cells == {Cell("th", <<" ", "x">>), Cell("td", <<>>)}
Rows == SeqsUpTo(Cells, MaxCells)
Tables == {Element("table", "", <<>>, rs) : rs \in SeqsUpTo(Rows, MaxRows)}
Around ==
    { <<>>,
      <<Element("table", "", <<>>, << <<>> >>)>>,
      <<Element("table", "", <<>>, << <<Cell("td", <<"y">>)>> >>)>> }
TableDocuments == {pre \o <<t>> \o suf : pre \in Around, t \in Tables, suf \in Around}

Chars == {"a", " ", "\n", "\t"}
Texts == SeqsUpTo(Chars, MaxTextLen)

InitPure ==
    /\ CrawlIdle
    /\ pfun = "none"
    /\ pout = <<>>
    /\ pprev = <<>>
    /\ papplied = 0
    /\ \/ pkind = "elements" /\ pdoc \in PureDocuments /\ ptext = <<>>
       \/ pkind = "tables" /\ pdoc \in TableDocuments /\ ptext = <<>>
       \/ pkind = "text" /\ pdoc = <<>> /\ ptext \in Texts

Apply(kind, fun, out) ==
    /\ pkind = kind
    /\ pfun = "none"
    /\ pfun' = fun
    /\ pout' = out
    /\ UNCHANGED <<pkind, pdoc, ptext, pprev, papplied>>
    /\ UNCHANGED crawl_vars

ApplyExtractHeadings == Apply("elements", "_extract_headings", _extract_headings(pdoc))

ApplyExtractParagraphs ==
    Apply("elements", "_extract_paragraphs", _extract_paragraphs(pdoc))

ApplyExtractTables == Apply("tables", "_extract_tables", _extract_tables(pdoc))

\* the normalization applied to the text, then to its own output
ApplyNormalize ==
    /\ pkind = "text"
    /\ papplied < MaxApply
    /\ LET arg == IF papplied = 0 THEN ptext ELSE pout
       IN /\ pout' = normalize(arg)
          /\ pprev' = arg
    /\ papplied' = papplied + 1
    /\ pfun' = "normalize"
    /\ UNCHANGED <<pkind, pdoc, ptext>>
    /\ UNCHANGED crawl_vars

NextPure ==
    \/ ApplyExtractHeadings
    \/ ApplyExtractParagraphs
    \/ ApplyExtractTables
    \/ ApplyNormalize

SpecPure == InitPure /\ [][NextPure]_vars

\* ------------------------------------------------------------- properties
Rank(idx, i) == Cardinality({j \in idx : j <= i})

\* s is t without its leading and trailing whitespace
IsTrimOf(s, t) ==
    \E a \in 1..(Len(t) + 1) : \E b \in (a - 1)..Len(t) :
        /\ s = SubSeq(t, a, b)
        /\ \A i \in 1..(a - 1) : t[i] \in Whitespace
        /\ \A i \in (b + 1)..Len(t) : t[i] \in Whitespace
        /\ s # <<>> => s[1] \notin Whitespace /\ s[Len(s)] \notin Whitespace

Blank(t) == \A i \in 1..Len(t) : t[i] \in Whitespace

Returned == pc \in {"summary", "done"}
Succeeded == Returned /\ e = "none"
Failed == Returned /\ e # "none"

\* C1: the structured_data of a success record is, in document order, the
\* parsed value of every ld+json script of the fetched document whose text is
\* non-empty and parses as JSON.
C1_StructuredDataOfDocument ==
    Succeeded =>
        LET idx == {i \in 1..Len(parsed) :
                      /\ parsed[i].tag = "script"
                      /\ parsed[i].type = LdJson
                      /\ parsed[i].text # <<>>
                      /\ json_decodes(parsed[i].text)}
            sd == ret["structured_data"]
        IN /\ Len(sd) = Cardinality(idx)
           /\ \A i \in idx : sd[Rank(idx, i)] = json_loads(parsed[i].text)

\* C2: no extraction pass changes the parsed document: at every point of the
\* call the soup is the document as it was parsed.
C2_DocumentUnchanged == soup = parsed

\* C3: a transport failure makes crawl_page return (not raise) a record with
\* exactly the keys url, error, status, crawl_timestamp, status "failed" and
\* the requested url; a success record has no key error.
C3_FailureRecord ==
    /\ Failed =>
          /\ DOMAIN ret = {"url", "error", "status", "crawl_timestamp"}
          /\ ret["status"] = "failed"
          /\ ret["url"] = url
          /\ ret["error"] = e
    /\ Succeeded => "error" \notin DOMAIN ret /\ DOMAIN ret # {}
    /\ entry = "crawl_page" => raised = "none"

C3_Witness == pc = "done" /\ e = "HTTPError" /\ "error" \in DOMAIN ret

\* C4: every record of extract_tables has a non-empty raw_rows of non-empty
\* rows, headers its first row and rows the rest; rows and cells keep the
\* order of the table element they come from.
SourceRows(table) == {r \in 1..Len(table.rows) : table.rows[r] # <<>>}
Surviving(doc) ==
    {i \in 1..Len(doc) : doc[i].tag = "table" /\ SourceRows(doc[i]) # {}}

C4_TableShape ==
    pfun = "_extract_tables" =>
        \A i \in Surviving(pdoc) :
            LET t == pout[Rank(Surviving(pdoc), i)]
                src == pdoc[i]
            IN /\ t.raw_rows # <<>>
               /\ \A r \in 1..Len(t.raw_rows) : Len(t.raw_rows[r]) >= 1
               /\ t.headers = t.raw_rows[1]
               /\ t.rows = Tail(t.raw_rows)
               /\ t.raw_rows = <<t.headers>> \o t.rows
               /\ Len(t.raw_rows) = Cardinality(SourceRows(src))
               /\ \A r \in SourceRows(src) :
                     LET row == t.raw_rows[Rank(SourceRows(src), r)]
                     IN /\ Len(row) = Len(src.rows[r])
                        /\ \A c \in 1..Len(row) : IsTrimOf(row[c], src.rows[r][c].text)

C4_Witness ==
    /\ pfun = "_extract_tables"
    /\ \E k \in 1..Len(pout) :
          /\ Len(pout[k].raw_rows) = 2
          /\ Len(pout[k].headers) = 2
          /\ pout[k].headers[1] # pout[k].headers[2]
          /\ pout[k].rows # <<>>
          /\ pout[k].rows[1] # pout[k].headers
    /\ \E k \in 1..Len(pout) : pout[k].rows = <<>>

\* C5: a table element without a row that has a cell gives no entry; every
\* other table element gives exactly one, in document order.
C5_OneRecordPerSurvivingTable ==
    pfun = "_extract_tables" =>
        /\ Len(pout) = Cardinality(Surviving(pdoc))
        /\ \A i \in Surviving(pdoc) :
              LET t == pout[Rank(Surviving(pdoc), i)]
                  first == CHOOSE r \in SourceRows(pdoc[i]) :
                              \A q \in SourceRows(pdoc[i]) : r <= q
              IN /\ Len(t.raw_rows) = Cardinality(SourceRows(pdoc[i]))
                 /\ Len(t.headers) = Len(pdoc[i].rows[first])

C5_Witness ==
    /\ pfun = "_extract_tables"
    /\ Len(pdoc) = 3
    /\ pdoc[1].rows = << <<>> >>
    /\ pdoc[2].rows = << <<>>, <<>> >>
    /\ pdoc[3].rows # << <<>> >>
    /\ Len(pout) = 1

\* C6: the normalization of extract_clean_text, applied to its own output,
\* returns that output.
C6_NormalizeIdempotent ==
    (pfun = "normalize" /\ papplied >= 2) => pout = pprev

C6_Witness ==
    /\ pfun = "normalize"
    /\ papplied = 2
    /\ pout = pprev
    /\ pout # ptext
    /\ Len(pout) >= 3

\* C8: extract_headings returns exactly the keys h1..h6, each with the trimmed
\* texts of the heading elements of that level only, in document order.
C8_HeadingsByLevel ==
    pfun = "_extract_headings" =>
        /\ DOMAIN pout = HeadingTags
        /\ \A tag \in HeadingTags :
              LET idx == {i \in 1..Len(pdoc) : pdoc[i].tag = tag}
              IN /\ Len(pout[tag]) = Cardinality(idx)
                 /\ \A i \in idx : IsTrimOf(pout[tag][Rank(idx, i)], pdoc[i].text)

C8_Witness ==
    /\ pfun = "_extract_headings"
    /\ Len(pout["h2"]) = 2
    /\ pout["h2"][1] # pout["h2"][2]
    /\ Len(pout["h5"]) = 1
    /\ Len(pout["h1"]) = 0

\* C9: extract_paragraphs returns the trimmed texts of the p elements whose
\* trimmed text is non-empty, in document order, and no blank entry.
C9_NoBlankParagraph ==
    pfun = "_extract_paragraphs" =>
        LET idx == {i \in 1..Len(pdoc) : pdoc[i].tag = "p" /\ ~Blank(pdoc[i].text)}
        IN /\ \A k \in 1..Len(pout) : pout[k] # <<>> /\ ~Blank(pout[k])
           /\ Len(pout) = Cardinality(idx)
           /\ \A i \in idx : IsTrimOf(pout[Rank(idx, i)], pdoc[i].text)

C9_Witness ==
    /\ pfun = "_extract_paragraphs"
    /\ Len(pdoc) = 3
    /\ pdoc[1].tag = "p" /\ ~Blank(pdoc[1].text)
    /\ pdoc[2].tag = "p" /\ Blank(pdoc[2].text)
    /\ pdoc[3].tag = "p" /\ ~Blank(pdoc[3].text) /\ pdoc[3].text # pdoc[1].text
    /\ Len(pout) = 2

\* C7: get_page_summary returns the failure record unchanged when the crawl
\* failed and otherwise returns the ten-key summary, without raising.
C7_SummaryReturned ==
    (entry = "get_page_summary" /\ pc = "done") =>
        /\ raised = "none"
        /\ e # "none" => summary = ret
        /\ e = "none" =>
              DOMAIN summary =
                  {"url", "title", "meta_description", "headings_count",
                   "paragraphs_count", "links_count", "images_count",
                   "has_structured_data", "text_preview", "crawl_timestamp"}

\* C10: in one call the delay is applied once, before the fetch, and one fetch
\* is issued; a failed fetch is followed by neither, and the call returns a
\* record.
C10_OneDelayOneFetch ==
    /\ fetches <= delays
    /\ delays <= 1
    /\ pc \notin {"idle", "sleep"} => delays = 1
    /\ pc \notin {"idle", "sleep", "get"} => fetches = 1
    /\ Returned => DOMAIN ret # {}

C10_Witness ==
    /\ pc = "done"
    /\ entry = "crawl_page"
    /\ e = "Timeout"
    /\ delays = 1
    /\ fetches = 1
    /\ ret["status"] = "failed"

====
